---- MODULE Spec2Model ----
(***************************************************************************)
(* Model of compose_s3_backup.py: fetch the latest Compose (MongoHQ)       *)
(* backup of one database, upload it to S3 as a multipart upload, delete   *)
(* the local copy.  One thread of control; pc is its position.             *)
(*                                                                         *)
(* Python values that may be None are sequences of length <= 1:            *)
(* <<>> is None, <<v>> is the value v.                                     *)
(* An uncaught Python exception ends the interpreter with exit status 1.   *)
(***************************************************************************)
EXTENDS Integers, Sequences, FiniteSets, TLC

VARIABLES
    pc,                        \* position of the single thread of control
    r_status,                  \* r.status_code  (0: listing not requested yet)
    all_backups,               \* r.json() inside get_backup
    backups_for_this_database, \* the filtered list inside get_backup
    latest,                    \* <<>> or <<the selected entry>>
    r2_status,                 \* r2.status_code (0: download endpoint not requested)
    filename,                  \* result of get_backup: <<>> is None
    fileState,                 \* the local backup file: "absent", "present", "deleted"
    fileSize,                  \* bytes of the local backup file
    source_size,               \* os.stat(source_path).st_size inside upload_to_s3
    chunk_count,               \* chunk_count inside upload_to_s3
    i,                         \* loop index of the part loop
    parts,                     \* part uploads issued so far, in order
    mp,                        \* multipart session: "none", "initiated", "completed", "aborted"
    completeCalls,             \* number of mp.complete_upload() calls made
    s3_success,                \* result of upload_to_s3: <<"unset">>, <<>> (None) or <<0>>
    raised,                    \* "none" or the uncaught exception and where it was raised
    exitCode                   \* -1 while running, then the process exit status

vars == <<pc, r_status, all_backups, backups_for_this_database, latest, r2_status,
          filename, fileState, fileSize, source_size, chunk_count, i, parts, mp,
          completeCalls, s3_success, raised, exitCode>>

----------------------------------------------------------------------------
(* Bounds of the model *)
MaxBackups == 3     \* longest backup list the listing endpoint returns
MaxTime == 3        \* created_at values are 1..MaxTime
MaxChunks == 2      \* file sizes go up to MaxChunks whole chunks plus a remainder

(* Program constants *)
HTTP_OK == 200
HTTP_FOUND == 302
chunk_size == 52428800

database_name == "mydb"
DatabaseNames == {"mydb", "otherdb"}

ListStatuses == {HTTP_OK, 401, 500}
DownloadStatuses == {HTTP_FOUND, HTTP_OK, 404}

\* remainders: none, one byte, 20 MiB, one byte short of a chunk
Remainders == {0, 1, 20971520, chunk_size - 1}
FileSizes == {q * chunk_size + r : q \in 0..MaxChunks, r \in Remainders}

FileNameOf(id) == <<"backup", id>>

\* what the listing endpoint may answer: ids are unique (the position), every
\* backup belongs to one or more databases
BackupList(n, names, times) ==
    [k \in 1..n |-> [id |-> k,
                     database_names |-> names[k],
                     created_at |-> times[k],
                     filename |-> FileNameOf(k)]]

----------------------------------------------------------------------------
(* Pure helpers *)

IsNone(v) == v = <<>>

Min(a, b) == IF a <= b THEN a ELSE b

\* Python 2 `/` on two ints: floor division
PyIntDiv(a, b) == a \div b

\* math.ceil of the rational num/den, den > 0
MathCeil(num, den) == IF num % den = 0 THEN num \div den ELSE (num \div den) + 1

\* int(math.ceil(source_size / chunk_size)): the division is done first, on ints
ChunkCount(size) == MathCeil(PyIntDiv(size, chunk_size), 1)

\* range(chunk_count + 1)
LoopRange(count) == 0..count

PartOffset(k) == chunk_size * k
\* a part loop that forgets to clip the last part to the end of the file
PartBytesUnclipped(size, k) == chunk_size

PartBytes(size, k) == Min(chunk_size, size - PartOffset(k))

\* the for-loop of lines 45-48
RECURSIVE FilterBackups(_, _)
FilterBackups(bs, name) ==
    IF bs = <<>> THEN <<>>
    ELSE LET b == Head(bs)
             rest == FilterBackups(Tail(bs), name)
         IN IF name \in b.database_names
            THEN <<[id |-> b.id, created_at |-> b.created_at, filename |-> b.filename]>> \o rest
            ELSE rest

\* sorted(..., key=created_at): a stable sort, ascending
RECURSIVE InsertByCreatedAt(_, _)
InsertByCreatedAt(s, b) ==
    IF s = <<>> THEN <<b>>
    ELSE IF Head(s).created_at <= b.created_at
         THEN <<Head(s)>> \o InsertByCreatedAt(Tail(s), b)
         ELSE <<b>> \o s

RECURSIVE SortedByCreatedAt(_)
SortedByCreatedAt(s) ==
    IF s = <<>> THEN <<>>
    ELSE InsertByCreatedAt(SortedByCreatedAt(SubSeq(s, 1, Len(s) - 1)), s[Len(s)])

\* taking the first of the sorted list instead of the last
Earliest(s) == SortedByCreatedAt(s)[1]

\* sorted(...)[-1]; only defined on a non-empty list
Latest(s) == SortedByCreatedAt(s)[Len(s)]

----------------------------------------------------------------------------
Init ==
    /\ pc = "list_backups"
    /\ r_status = 0
    /\ all_backups = <<>>
    /\ backups_for_this_database = <<>>
    /\ latest = <<>>
    /\ r2_status = 0
    /\ filename = <<>>
    /\ fileState = "absent"
    /\ fileSize = 0
    /\ source_size = 0
    /\ chunk_count = 0
    /\ i = 0
    /\ parts = <<>>
    /\ mp = "none"
    /\ completeCalls = 0
    /\ s3_success = <<"unset">>
    /\ raised = "none"
    /\ exitCode = -1

\* an exception nobody catches: traceback, exit status 1
Uncaught(exc) ==
    /\ pc' = "exited"
    /\ raised' = exc
    /\ exitCode' = 1

\* get_backup returns: its locals die with the frame
ReturnFromGetBackup(result) ==
    /\ filename' = result
    /\ all_backups' = <<>>
    /\ backups_for_this_database' = <<>>
    /\ latest' = <<>>
    /\ pc' = "main_check_fetch"

----------------------------------------------------------------------------
(* get_backup *)

\* treating only server errors as a failed listing
ListingFailedOnServerError(status) == status >= 500

ListingFailed(status) == status # HTTP_OK

\* lines 37-53: list the account's backups, keep those of database_name,
\* pick the last of them in created_at order
ListBackups ==
    /\ pc = "list_backups"
    /\ UNCHANGED <<r2_status, fileState, fileSize, source_size, chunk_count, i,
                   parts, mp, completeCalls, s3_success>>
    /\ \/ \* requests.get raises (no answer)
          /\ Uncaught("ConnectionError@list")
          /\ UNCHANGED <<r_status, all_backups, backups_for_this_database, latest, filename>>
       \/ \E status \in ListStatuses :
            /\ r_status' = status
            /\ IF ListingFailed(status)
               THEN /\ ReturnFromGetBackup(<<>>)
                    /\ UNCHANGED <<raised, exitCode>>
               ELSE \E n \in 0..MaxBackups :
                    \E names \in [1..n -> (SUBSET DatabaseNames) \ {{}}] :
                    \E times \in [1..n -> 1..MaxTime] :
                      LET body == BackupList(n, names, times)
                          matching == FilterBackups(body, database_name) IN
                      /\ all_backups' = body
                      /\ backups_for_this_database' = matching
                      /\ IF matching = <<>>
                         THEN \* sorted([])[-1]
                              /\ Uncaught("IndexError@latest")
                              /\ UNCHANGED <<latest, filename>>
                         ELSE /\ latest' = <<Latest(matching)>>
                              /\ pc' = "request_download"
                              /\ UNCHANGED <<filename, raised, exitCode>>

\* accepting any non-error answer of the download endpoint
DownloadNotAnError(status) == status < 400

DownloadRedirected(status) == status = HTTP_FOUND

\* lines 56-61: ask the per-backup download endpoint, redirects not followed
RequestDownload ==
    /\ pc = "request_download"
    /\ UNCHANGED <<r_status, fileState, fileSize, source_size, chunk_count, i,
                   parts, mp, completeCalls, s3_success>>
    /\ \/ /\ Uncaught("ConnectionError@download")
          /\ UNCHANGED <<r2_status, all_backups, backups_for_this_database, latest, filename>>
       \/ \E status \in DownloadStatuses :
            /\ r2_status' = status
            /\ UNCHANGED <<raised, exitCode>>
            /\ IF DownloadRedirected(status)
               THEN /\ pc' = "download_file"
                    /\ UNCHANGED <<all_backups, backups_for_this_database, latest, filename>>
               ELSE ReturnFromGetBackup(<<>>)

\* lines 65-72: stream the redirect target into the local file
DownloadFile ==
    /\ pc = "download_file"
    /\ UNCHANGED <<r_status, r2_status, source_size, chunk_count, i, parts, mp,
                   completeCalls, s3_success>>
    /\ \/ \* requests.get raises before the file is opened
          /\ Uncaught("ConnectionError@file")
          /\ UNCHANGED <<all_backups, backups_for_this_database, latest, filename,
                         fileState, fileSize>>
       \/ \E size \in FileSizes :
            /\ fileState' = "present"
            /\ fileSize' = size
            /\ \/ \* the stream breaks after the file was opened and partly written
                  /\ Uncaught("ConnectionError@stream")
                  /\ UNCHANGED <<all_backups, backups_for_this_database, latest, filename>>
               \/ /\ ReturnFromGetBackup(<<latest[1].filename>>)
                  /\ UNCHANGED <<raised, exitCode>>

----------------------------------------------------------------------------
(* __main__ *)

SuccessExit == 0
UploadFailureExit == 1

\* leaving with the success status after a failed fetch
FetchFailureExitAsSuccess == SuccessExit

FetchFailureExit == 1

\* cleaning up before the upload
AfterFetchCleanup == "cleanup"

AfterFetch == "s3_connect"

\* lines 118-123
MainCheckFetch ==
    /\ pc = "main_check_fetch"
    /\ UNCHANGED <<r_status, all_backups, backups_for_this_database, latest, r2_status,
                   filename, fileState, fileSize, source_size, chunk_count, i, parts,
                   mp, completeCalls, s3_success, raised>>
    /\ IF IsNone(filename)
       THEN /\ pc' = "exited"
            /\ exitCode' = FetchFailureExit
       ELSE /\ pc' = AfterFetch
            /\ UNCHANGED exitCode

\* testing the upload result the wrong way round
UploadFailedInverted(result) == ~IsNone(result)

UploadFailed(result) == IsNone(result)

\* lines 124-129
MainCheckUpload ==
    /\ pc = "main_check_upload"
    /\ UNCHANGED <<r_status, all_backups, backups_for_this_database, latest, r2_status,
                   filename, fileState, fileSize, source_size, chunk_count, i, parts,
                   mp, completeCalls, s3_success, raised>>
    /\ IF UploadFailed(s3_success)
       THEN /\ pc' = "exited"
            /\ exitCode' = UploadFailureExit
       ELSE /\ pc' = "cleanup"
            /\ UNCHANGED exitCode

\* lines 101-103 and 131, then the script ends
DeleteLocalBackupFile ==
    /\ pc = "cleanup"
    /\ UNCHANGED <<r_status, all_backups, backups_for_this_database, latest, r2_status,
                   filename, fileSize, source_size, chunk_count, i, parts, mp,
                   completeCalls, s3_success>>
    /\ IF fileState = "present"
       THEN /\ fileState' = "deleted"
            /\ pc' = "exited"
            /\ exitCode' = SuccessExit
            /\ UNCHANGED raised
       ELSE \* os.remove of a file that is not there
            /\ Uncaught("OSError@remove")
            /\ UNCHANGED fileState

----------------------------------------------------------------------------
(* upload_to_s3 *)

\* numbering the parts from 0
PartNumZeroBased(k) == k

PartNum(k) == k + 1

\* lines 77-81: connect, look the bucket up, stat the file
S3Connect ==
    /\ pc = "s3_connect"
    /\ UNCHANGED <<r_status, all_backups, backups_for_this_database, latest, r2_status,
                   filename, fileState, fileSize, chunk_count, i, parts, mp,
                   completeCalls, s3_success>>
    /\ \/ /\ Uncaught("S3ResponseError@get_bucket")
          /\ UNCHANGED source_size
       \/ /\ IF fileState = "present"
             THEN /\ source_size' = fileSize
                  /\ pc' = "s3_initiate"
                  /\ UNCHANGED <<raised, exitCode>>
             ELSE /\ Uncaught("OSError@stat")
                  /\ UNCHANGED source_size

\* lines 83-86: open the multipart session, compute the chunk count
S3Initiate ==
    /\ pc = "s3_initiate"
    /\ UNCHANGED <<r_status, all_backups, backups_for_this_database, latest, r2_status,
                   filename, fileState, fileSize, source_size, parts, completeCalls,
                   s3_success>>
    /\ \/ /\ Uncaught("S3ResponseError@initiate")
          /\ UNCHANGED <<mp, chunk_count, i>>
       \/ /\ mp' = "initiated"
          /\ chunk_count' = ChunkCount(source_size)
          /\ i' = 0
          /\ pc' = "s3_part"
          /\ UNCHANGED <<raised, exitCode>>

\* lines 90-95: one iteration of the part loop
S3UploadPart ==
    /\ pc = "s3_part"
    /\ i \in LoopRange(chunk_count)
    /\ UNCHANGED <<r_status, all_backups, backups_for_this_database, latest, r2_status,
                   filename, fileState, fileSize, source_size, chunk_count, mp,
                   completeCalls, s3_success>>
    /\ parts' = Append(parts, [part_num |-> PartNum(i),
                               offset |-> PartOffset(i),
                               bytes |-> PartBytes(source_size, i)])
    /\ \/ \* upload_part_from_file raises
          /\ Uncaught("S3ResponseError@upload_part")
          /\ UNCHANGED i
       \/ /\ i' = i + 1
          /\ pc' = IF i + 1 \in LoopRange(chunk_count) THEN "s3_part" ELSE "s3_complete"
          /\ UNCHANGED <<raised, exitCode>>

\* lines 97-98
S3Complete ==
    /\ pc = "s3_complete"
    /\ UNCHANGED <<r_status, all_backups, backups_for_this_database, latest, r2_status,
                   filename, fileState, fileSize, source_size, chunk_count, i, parts>>
    /\ completeCalls' = completeCalls + 1
    /\ \/ /\ Uncaught("S3ResponseError@complete")
          /\ UNCHANGED <<mp, s3_success>>
       \/ /\ mp' = "completed"
          /\ s3_success' = <<0>>
          /\ pc' = "main_check_upload"
          /\ UNCHANGED <<raised, exitCode>>

----------------------------------------------------------------------------
Next ==
    \/ ListBackups
    \/ RequestDownload
    \/ DownloadFile
    \/ MainCheckFetch
    \/ S3Connect
    \/ S3Initiate
    \/ S3UploadPart
    \/ S3Complete
    \/ MainCheckUpload
    \/ DeleteLocalBackupFile

Spec == Init /\ [][Next]_vars

----------------------------------------------------------------------------
(* Vocabulary of the properties *)

Exited == pc = "exited"

\* the true ceiling of size / chunk_size
CeilOfSizeOverChunk(size) == MathCeil(size, chunk_size)

RECURSIVE SumBytes(_)
SumBytes(ps) == IF ps = <<>> THEN 0 ELSE Head(ps).bytes + SumBytes(Tail(ps))

\* the part loop has run to its end
AllPartsIssued == pc = "s3_complete" \/ completeCalls > 0

PartUploadFailed == raised = "S3ResponseError@upload_part"

\* the listing answered 200 and nothing in it belongs to database_name
NoMatchingBackup ==
    /\ Exited
    /\ r_status = HTTP_OK
    /\ r2_status = 0
    /\ backups_for_this_database = <<>>

ListingRefused == r_status # 0 /\ r_status # HTTP_OK
DownloadNotRedirected == r2_status # 0 /\ r2_status # HTTP_FOUND

FetchSucceeded == ~IsNone(filename)

\* an upper bound on the steps the run still has to take (every library call
\* returns or raises, so a step that is enabled is taken)
StepsLeft ==
    CASE pc = "exited" -> 0
      [] pc = "cleanup" -> 1
      [] pc = "main_check_upload" -> 2
      [] pc = "s3_complete" -> 3
      [] pc = "s3_part" -> 4 + (chunk_count - i)
      [] pc = "s3_initiate" -> 5 + (source_size \div chunk_size)
      [] pc = "s3_connect" -> 6 + (fileSize \div chunk_size)
      [] pc = "main_check_fetch" -> 7 + (fileSize \div chunk_size)
      [] pc = "download_file" -> 8 + MaxChunks
      [] pc = "request_download" -> 9 + MaxChunks
      [] pc = "list_backups" -> 10 + MaxChunks

FetchStageFailed == ListingRefused \/ NoMatchingBackup \/ DownloadNotRedirected
UploadCompleted == mp = "completed"

----------------------------------------------------------------------------
\* C1: the number of parts issued is exactly ceil(S / C), also when S is a
\* multiple of C or 0, and no part starts or ends beyond S.
C1_PartCountIsCeiling ==
    /\ Len(parts) <= CeilOfSizeOverChunk(source_size)
    /\ AllPartsIssued => Len(parts) = CeilOfSizeOverChunk(source_size)
    /\ \A k \in 1..Len(parts) :
         /\ parts[k].offset <= source_size
         /\ parts[k].offset + parts[k].bytes <= source_size

\* C2: when the listing succeeds and no backup belongs to the database,
\* get_backup returns None and the process leaves with status 1; no exception.
C2_NoMatchFailsExplicitly ==
    NoMatchingBackup => (raised = "none" /\ IsNone(filename) /\ exitCode = 1)

\* C3: the uploaded ranges, in part order, start at 0, each starts where the
\* previous one ends, every length is within 0..C, and once the loop is over
\* the lengths sum to S and the final length is the remainder of S by C.
C3_RangesPartitionFile ==
    /\ parts # <<>> => parts[1].offset = 0
    /\ \A k \in 1..Len(parts) :
         /\ 0 <= parts[k].bytes
         /\ parts[k].bytes <= chunk_size
         /\ k < Len(parts) => parts[k + 1].offset = parts[k].offset + parts[k].bytes
         /\ \A j \in 1..Len(parts) :
              j < k => parts[j].offset + parts[j].bytes <= parts[k].offset
    /\ SumBytes(parts) <= source_size
    /\ AllPartsIssued =>
         /\ SumBytes(parts) = source_size
         /\ parts[Len(parts)].bytes = source_size % chunk_size

C3_Witness ==
    /\ AllPartsIssued
    /\ Len(parts) = 3
    /\ parts[1].bytes = chunk_size
    /\ parts[3].bytes = 20971520

\* C4: the selected backup belongs to the requested database and no backup of
\* that database is newer; a newer backup of another database is not selected.
C4_LatestMatchingSelected ==
    latest # <<>> =>
        /\ \E k \in 1..Len(all_backups) :
             /\ database_name \in all_backups[k].database_names
             /\ all_backups[k].id = latest[1].id
             /\ all_backups[k].created_at = latest[1].created_at
             /\ all_backups[k].filename = latest[1].filename
        /\ \A k \in 1..Len(all_backups) :
             database_name \in all_backups[k].database_names
                => all_backups[k].created_at <= latest[1].created_at

C4_Witness ==
    /\ latest # <<>>
    /\ \E k \in 1..Len(all_backups) :
         /\ database_name \notin all_backups[k].database_names
         /\ all_backups[k].created_at > latest[1].created_at
    /\ \E k \in 1..Len(all_backups) :
         /\ database_name \in all_backups[k].database_names
         /\ all_backups[k].created_at < latest[1].created_at

\* C5: after any answer of the download endpoint other than 302, get_backup has
\* returned None without creating the local file, nothing of the upload is
\* attempted, and the process leaves with status 1.
C5_NoRedirectNoFileNoUpload ==
    DownloadNotRedirected =>
        /\ pc \in {"main_check_fetch", "exited"}
        /\ IsNone(filename)
        /\ fileState = "absent"
        /\ mp = "none"
        /\ parts = <<>>
        /\ completeCalls = 0
        /\ s3_success = <<"unset">>
        /\ raised = "none"
        /\ Exited => exitCode = 1

C5_Witness ==
    /\ r2_status = HTTP_OK
    /\ Exited
    /\ exitCode = 1

\* C6: the exit status is 0 only when the fetch and the upload both succeeded,
\* and 1 whenever the fetch or the upload failed.
C6_ExitCodes ==
    Exited =>
        /\ exitCode \in {0, 1}
        /\ exitCode = 0 => (FetchSucceeded /\ UploadCompleted /\ raised = "none")
        /\ (~FetchSucceeded \/ ~UploadCompleted) => exitCode = 1

C6_Witness ==
    /\ Exited
    /\ FetchSucceeded
    /\ PartUploadFailed
    /\ exitCode = 1

\* what holds in every state that follows a failed fetch stage
C7_FetchFailureState ==
    /\ FetchStageFailed =>
          /\ mp = "none" /\ parts = <<>> /\ completeCalls = 0
          /\ pc \in {"main_check_fetch", "exited"}
          /\ IsNone(filename)
          /\ Exited \/ ENABLED Next
    /\ ListingRefused => r2_status = 0

\* C7: a run whose listing is refused, or that finds no matching backup, or
\* whose download request is not redirected, ends (by its very next step)
\* without a multipart upload ever being initiated; a refused listing also
\* issues no download request.
C7_NoUploadAfterFetchFailure ==
    /\ []C7_FetchFailureState
    /\ [][(FetchStageFailed /\ ~Exited) => (Exited' /\ mp' = "none")]_vars

C7_Witness ==
    /\ ListingRefused
    /\ Exited
    /\ exitCode = 1

\* how a run without any failure has ended; a run that has not ended can step
C8_SuccessState ==
    /\ (Exited /\ FetchSucceeded /\ raised = "none") =>
          (UploadCompleted /\ fileState = "deleted" /\ exitCode = 0)
    /\ Exited \/ ENABLED Next

\* C8: a run in which the fetch succeeds and no upload step fails ends, after a
\* bounded number of steps, with the multipart upload completed, the local
\* file deleted and exit status 0.
C8_SuccessfulRunCompletes ==
    /\ []C8_SuccessState
    /\ [][StepsLeft' < StepsLeft]_vars

C8_Witness ==
    /\ Exited
    /\ exitCode = 0
    /\ fileState = "deleted"
    /\ UploadCompleted
    /\ Len(parts) = 3

\* the local file against the state of the upload, and the steps that change it
C9_FileState ==
    /\ fileState = "deleted" => (UploadCompleted /\ parts # <<>>)
    /\ (Exited /\ FetchSucceeded /\ ~UploadCompleted) => fileState = "present"
    /\ parts # <<>> => fileState # "absent"

C9_FileStep ==
    /\ fileState' # fileState =>
          \/ fileState = "absent" /\ fileState' = "present" /\ pc = "download_file"
          \/ /\ fileState = "present" /\ fileState' = "deleted"
             /\ pc = "cleanup" /\ UploadCompleted
    /\ parts' # parts => (fileState = "present" /\ fileState' = "present")

\* C9: the local file is deleted only once the multipart upload is completed; a
\* run whose upload fails leaves it on disk; the file is created by the fetcher,
\* then read by the uploader, then deleted by cleanup, in that order only.
C9_DeleteOnlyAfterCompletedUpload ==
    /\ []C9_FileState
    /\ [][C9_FileStep]_vars

C9_Witness ==
    /\ Exited
    /\ FetchSucceeded
    /\ raised = "S3ResponseError@complete"
    /\ fileState = "present"

\* the issued parts and the session in every state, and the steps that change them
C10_UploadState ==
    /\ \A k \in 1..Len(parts) : parts[k].part_num = k
    /\ parts # <<>> => mp # "none"
    /\ completeCalls <= 1
    /\ completeCalls > 0 =>
          (~PartUploadFailed /\ Len(parts) = Cardinality(LoopRange(chunk_count)))
    /\ PartUploadFailed => (mp = "initiated" /\ completeCalls = 0)
    /\ mp \in {"none", "initiated", "completed"}

C10_UploadStep ==
    /\ parts' # parts =>
          /\ mp = "initiated"
          /\ Len(parts') = Len(parts) + 1
          /\ SubSeq(parts', 1, Len(parts)) = parts
          /\ parts'[Len(parts')].part_num = Len(parts) + 1
    /\ completeCalls' # completeCalls => pc = "s3_complete"

\* C10: parts go out one at a time, numbered 1, 2, ..., N in order, after the
\* session is initiated; complete_upload is called at most once and only after
\* every part succeeded; after a failed part the session stays initiated.
C10_PartsInOrderThenComplete ==
    /\ []C10_UploadState
    /\ [][C10_UploadStep]_vars

C10_Witness ==
    /\ PartUploadFailed
    /\ Len(parts) = 3
    /\ mp = "initiated"
    /\ Exited

====
